---- MODULE Spec2Model ----
(***************************************************************************)
(* Event-share: the view page (src/app/view/page.tsx), its face filter     *)
(* (handleFaceScan) and the photo-upload reference modal                   *)
(* (src/components/FaceUploadModal.tsx), modelled as one state machine.    *)
(*                                                                         *)
(* JavaScript runs a handler to its next await without interruption, so    *)
(* every action below is one such run: from an event (click, timer, a      *)
(* promise settling) to the next await or to the end of the handler.       *)
(***************************************************************************)
EXTENDS Integers, Sequences, FiniteSets, TLC

(***************************************************************************)
(* Bounds of the model.                                                    *)
(***************************************************************************)
MaxLen == 1      \* longest media list drawn freely for the stored event
MaxScans == 2    \* reference photos selected in one behaviour
MaxOverlap == 2  \* selections whose extraction or filter run is in flight
MaxNow == 2      \* last clock reading of the view page's lookups, in hours
MaxChains == 3   \* polling chains of the camera modal alive at once
MaxOpenings == 2 \* openings of the camera modal
MaxUploads == 11 \* successful uploads from one browser
RandomBits == 17 \* Math.random() returns k / 2^RandomBits

(***************************************************************************)
(* Media URLs, as the path segments after the host.                        *)
(***************************************************************************)
ImgA == <<"image", "upload", "a.jpg">>
ImgB == <<"image", "upload", "b.jpg">>
ImgC == <<"image", "upload", "c.jpg">>
Video1 == <<"video", "upload", "v.mp4">>

URLs == {ImgA, ImgB, Video1, ImgC}

\* variant: the marker misspelt as '/videos/'
IncludesVideoTypo(url) == \E j \in 1..(Len(url) - 1) : url[j] = "videos"

\* url.includes('/video/'): a segment "video" with a slash on both sides;
\* the host part ends with a slash, so every segment but the last qualifies.
IncludesVideo(url) == \E j \in 1..(Len(url) - 1) : url[j] = "video"

(***************************************************************************)
(* Face descriptors: vectors of tenths (the code's are 128 floats).        *)
(***************************************************************************)
RefA == <<0, 0>>
RefB == <<10, 0>>

\* What the detector finds in each image of the event (deterministic given
\* the image and the loaded weights).
\* ImgA shows two people, the second one close to RefA and the first close
\* to RefB; ImgC shows one person at exactly 0.6 from RefA; ImgB shows
\* nobody.  Video1 would show both if a frame of it were ever examined.
FacesIn(url) ==
    IF url = ImgA THEN << <<10, 4>>, <<3, 3>> >>
    ELSE IF url = ImgC THEN << <<6, 0>> >>
    ELSE IF url = Video1 THEN << RefA, RefB >>
    ELSE << >>

\* The match threshold 0.6, in tenths.
ThresholdTenths == 6

SumSq(a, b) == (a[1] - b[1]) * (a[1] - b[1]) + (a[2] - b[2]) * (a[2] - b[2])

\* variant: distance <= 0.6
DistanceAtMostThreshold(d, u) == SumSq(d, u) <= ThresholdTenths * ThresholdTenths

\* faceapi.euclideanDistance(d, u) < 0.6: the distance is the square root
\* of SumSq (in tenths), and sqrt(x) < t iff x < t*t for t >= 0.
DistanceBelowThreshold(d, u) == SumSq(d, u) < ThresholdTenths * ThresholdTenths

\* detections.some(d => distance(d.descriptor, userDescriptor) < 0.6)
IsMatch(detections, u) ==
    \E j \in 1..Len(detections) : DistanceBelowThreshold(detections[j], u)

(***************************************************************************)
(* Reference photos the user can pick in the modal.                        *)
(***************************************************************************)
ImageFiles == {"selfieA", "selfieB", "landscape", "broken"}
Files == ImageFiles

\* file.type.startsWith('image/')
IsImageFile(f) == f \in ImageFiles

\* img.onload / img.onerror for the data URL of the chosen file
RefImageLoads(f) == f # "broken"

\* detectSingleFace(img): a sequence holding the one detection, or empty
\* for undefined.
DetectSingleFace(f) ==
    IF f = "selfieA" THEN <<RefA>>
    ELSE IF f = "selfieB" THEN <<RefB>>
    ELSE << >>

(***************************************************************************)
(* Event codes, as sequences of characters.                                *)
(***************************************************************************)
Digits == {"0", "1", "2", "3", "4", "5", "6", "7", "8", "9"}

Code12345 == <<"1", "2", "3", "4", "5">>
Code99999 == <<"9", "9", "9", "9", "9">>
StoreCodes == {Code12345, Code99999}

TypedInputs == { <<"1", "2", "3", "4", "5", "6">> }

IsDigit(ch) == ch \in Digits

\* e.target.value.replace(/\D/g, '').slice(0, 5)
SanitizeCode(input) ==
    LET digits == SelectSeq(input, IsDigit)
    IN  IF Len(digits) > 5 THEN SubSeq(digits, 1, 5) ELSE digits

(***************************************************************************)
(* Media lists of the stored event.                                        *)
(***************************************************************************)
ScenarioL == <<ImgA, ImgB, Video1, ImgC>>
DuplicateL == <<ImgA, ImgA>>

SeqsUpTo(S, n) == UNION { [1..m -> S] : m \in 0..n }

\* every list up to MaxLen, and two longer ones
MediaLists == SeqsUpTo(URLs, MaxLen) \cup {ScenarioL, DuplicateL}

NoEvent == [exists |-> FALSE, urls |-> << >>, hasExpiry |-> FALSE, expiresAt |-> 0,
            createdAt |-> 0]

(***************************************************************************)
(* Progress values: ((i + 1) / total) * 100 as a fraction in lowest terms. *)
(* Division and multiplication of floats are monotone and N / N is exactly *)
(* 1, so the order and the value 100 are those of the exact fractions.     *)
(***************************************************************************)
RECURSIVE GCD(_, _)
GCD(a, b) == IF b = 0 THEN a ELSE GCD(b, a % b)

Fraction(n, d) == LET g == GCD(n, d) IN <<n \div g, d \div g>>

Zero == Fraction(0, 1)

\* variant: (i / total) * 100
ProgressValueFromZero(i, total) == Fraction(i * 100, total)

ProgressValue(i, total) == Fraction((i + 1) * 100, total)

FracLeq(p, q) == p[1] * q[2] <= q[1] * p[2]

(***************************************************************************)
(* State.                                                                  *)
(***************************************************************************)
VARIABLES
    \* ViewPage state (page.tsx 11-20)
    code, media, allMedia, loading, error,
    isFilterModalOpen, isFiltering, filterProgress, filteredCount,
    \* the getDoc call of fetchEvent in flight
    fetch,
    \* FaceUploadModal state (FaceUploadModal.tsx 13-18)
    selectedImage, mLoading, mError, mSuccess, modelsLoaded,
    \* one entry per selected reference photo: the modal's extraction and
    \* the filter run it starts
    task,
    \* the world: document store, browser storage, clock
    events, localStorage, now,
    \* the live-camera modal (FaceFilterModal), the last createEvent call and
    \* the cleanup route's request
    cam, generated, sweep,
    \* the full-screen viewer of ViewPage (page.tsx 22-23)
    viewer,
    \* the upload page
    upload

pageVars == <<code, media, allMedia, loading, error,
              isFilterModalOpen, isFiltering, filterProgress, filteredCount>>
modalVars == <<selectedImage, mLoading, mError, mSuccess, modelsLoaded>>
worldVars == <<events, localStorage, now>>
otherVars == <<cam, generated, sweep, viewer, upload>>

vars == <<code, media, allMedia, loading, error,
          isFilterModalOpen, isFiltering, filterProgress, filteredCount,
          fetch, selectedImage, mLoading, mError, mSuccess, modelsLoaded,
          task, events, localStorage, now, cam, generated, sweep, viewer,
          upload>>

TaskIds == 1..MaxScans

NoImage == "null"

\* pc: where the task waits; photo, D, L, i, matches: what its closures
\* hold (L is the allMedia of the render that created them).  The rest
\* records what happened: shown is the page's allMedia when the photo was
\* selected, modelLoad how the run's model loading settled, outcomes what
\* became of each item, progress the values the run wrote to filterProgress.
NoTask == [pc |-> "unused", photo |-> NoImage, D |-> << >>, L |-> << >>,
           i |-> 0, matches |-> << >>, shown |-> << >>,
           modelLoad |-> "pending", outcomes |-> << >>, progress |-> << >>]

\* positions of a task inside handleFaceScan
ScanPcs == {"fsModels", "fsImgLoad", "fsDetect"}
\* positions after handleFaceScan returned
EndPcs == {"done", "failed"}

NoEntry == [present |-> FALSE, media |-> << >>, time |-> 0]

\* the browser's storage with nothing in it; << >> is a key that is not set
NoStorage == [cache |-> [c \in StoreCodes |-> NoEntry],
              lastViewedCode |-> << >>,
              lastEventCode |-> << >>,
              activeEventCode |-> << >>,
              eventHistory |-> << >>]

\* the camera modal as constructed: closed, loading (useState(true)), no
\* polling chain
ChainIds == 1..MaxChains
NoChain == [pc |-> "unused", running |-> FALSE, enteredIn |-> 0]
NoCamera == [isOpen |-> FALSE, loading |-> TRUE, scanning |-> FALSE,
             error |-> "", modelsLoaded |-> FALSE, hasScanned |-> FALSE,
             load |-> 0, opening |-> 0, entered |-> 0,
             scans |-> [o \in 1..MaxOpenings |-> 0],
             chains |-> [c \in ChainIds |-> NoChain]]

\* the viewer closed; currentIndex counts from 0 as in the code
NoViewer == [isFullScreen |-> FALSE, currentIndex |-> 0]

\* the upload page as first rendered: the form, nothing in flight; code
\* << >> is null, count the uploads that have succeeded
NoUpload == [pc |-> "idle", uploading |-> FALSE, code |-> << >>,
             files |-> << >>, duration |-> 6, count |-> 0]

\* no createEvent call made yet
NoCall == [r |-> 0, code |-> << >>]

\* the cleanup route idle, no response sent yet
NoSweep == [pc |-> "idle", now |-> 0, status |-> 0, deleted |-> 0,
            error |-> ""]

\* the page as first rendered, in a browser whose storage is empty
PageStart(call) ==
    /\ code = << >>
    /\ media = << >>
    /\ allMedia = << >>
    /\ loading = FALSE
    /\ error = ""
    /\ isFilterModalOpen = FALSE
    /\ isFiltering = FALSE
    /\ filterProgress = Zero
    /\ filteredCount = 0
    /\ fetch = [pc |-> "idle", code |-> << >>]
    /\ selectedImage = NoImage
    /\ mLoading = FALSE
    /\ mError = ""
    /\ mSuccess = FALSE
    /\ modelsLoaded = FALSE
    /\ task = [k \in TaskIds |-> NoTask]
    /\ now = 0
    /\ localStorage = NoStorage
    /\ cam = NoCamera
    /\ generated = call
    /\ sweep = NoSweep
    /\ viewer = NoViewer
    /\ upload = NoUpload

PageInit == PageStart(NoCall)

\* the page as first rendered, with one event in the store, its media list
\* drawn from lists
InitWith(lists) ==
    /\ PageInit
    /\ \E urls \in lists :
         events = [c \in StoreCodes |->
                     IF c = Code12345
                     THEN [exists |-> TRUE, urls |-> urls,
                           hasExpiry |-> TRUE, expiresAt |-> now + 1,
                           createdAt |-> now]
                     ELSE NoEvent]

Init == InitWith(MediaLists)

(***************************************************************************)
(* ViewPage: code input, fetchEvent, clearFilter.                          *)
(***************************************************************************)
\* onChange of the code input
SetCode(input) ==
    /\ code' = SanitizeCode(input)
    /\ code' # code
    /\ UNCHANGED <<media, allMedia, loading, error, isFilterModalOpen,
                   isFiltering, filterProgress, filteredCount,
                   fetch, modalVars, task, worldVars, otherVars>>

\* fetchEvent up to its await getDoc, called from the View button
\* (disabled={loading || code.length !== 5})
FetchEventStart ==
    /\ ~loading
    /\ Len(code) = 5
    /\ fetch.pc = "idle"
    /\ loading' = TRUE
    /\ error' = ""
    /\ media' = << >>
    /\ allMedia' = << >>
    /\ fetch' = [pc |-> "getDoc", code |-> code]
    /\ UNCHANGED <<code, isFilterModalOpen, isFiltering, filterProgress,
                   filteredCount, modalVars, task, worldVars, otherVars>>

\* clearCache(), with the code of the closure that called it
ClearCache(ls, c) ==
    IF c # << >> /\ c \in StoreCodes
    THEN [ls EXCEPT !.cache[c] = NoEntry]
    ELSE ls

\* fetchEvent after getDoc settled; ok = FALSE is getDoc rejecting
FetchEventResolve(ok) ==
    /\ fetch.pc = "getDoc"
    /\ LET c == fetch.code
           docSnap == IF c \in StoreCodes THEN events[c] ELSE NoEvent
       IN  IF ~ok
           THEN /\ error' = "Something went wrong"
                /\ UNCHANGED <<media, allMedia, localStorage>>
           ELSE IF ~docSnap.exists
           THEN /\ error' = "Invalid or expired code"
                /\ localStorage' = ClearCache(localStorage, c)
                /\ UNCHANGED <<media, allMedia>>
           ELSE IF ~docSnap.hasExpiry
           THEN /\ error' = "This event has no expiry or is corrupted"
                /\ localStorage' = ClearCache(localStorage, c)
                /\ UNCHANGED <<media, allMedia>>
           ELSE IF now > docSnap.expiresAt
           THEN /\ error' = "This event has expired"
                /\ localStorage' = ClearCache(localStorage, c)
                /\ UNCHANGED <<media, allMedia>>
           ELSE /\ media' = docSnap.urls
                /\ allMedia' = docSnap.urls
                /\ localStorage' =
                     [localStorage EXCEPT
                        !.cache[c] = [present |-> TRUE,
                                      media |-> docSnap.urls,
                                      time |-> now],
                        !.lastViewedCode = c]
                /\ UNCHANGED error
    /\ loading' = FALSE
    /\ fetch' = [pc |-> "idle", code |-> << >>]
    /\ UNCHANGED <<code, isFilterModalOpen, isFiltering, filterProgress,
                   filteredCount, modalVars, task, events, now, otherVars>>

\* the 'Show All Photos' button
clearFilter ==
    /\ Len(allMedia) > 0
    /\ ~loading
    /\ Len(media) # Len(allMedia)
    /\ media' = allMedia
    /\ filteredCount' = 0
    /\ UNCHANGED <<code, allMedia, loading, error, isFilterModalOpen,
                   isFiltering, filterProgress, fetch, modalVars, task,
                   worldVars, otherVars>>

(***************************************************************************)
(* FaceUploadModal: reference extraction.                                  *)
(***************************************************************************)
\* the filter button, shown when
\* allMedia.length > 0 && !loading && media.length === allMedia.length
OpenFilterModal ==
    /\ Len(allMedia) > 0
    /\ ~loading
    /\ Len(media) = Len(allMedia)
    /\ ~isFilterModalOpen
    /\ isFilterModalOpen' = TRUE
    /\ UNCHANGED <<code, media, allMedia, loading, error, isFiltering,
                   filterProgress, filteredCount, fetch, modalVars, task,
                   worldVars, otherVars>>

\* the modal's X button: onClose(); handleReset()
CloseModal ==
    /\ isFilterModalOpen
    /\ isFilterModalOpen' = FALSE
    /\ selectedImage' = NoImage
    /\ mError' = ""
    /\ mSuccess' = FALSE
    /\ mLoading' = FALSE
    /\ UNCHANGED <<code, media, allMedia, loading, error, isFiltering,
                   filterProgress, filteredCount, fetch, modelsLoaded, task,
                   worldVars, otherVars>>

\* 'Choose Different Photo' (disabled={loading || success}), shown with the
\* preview
handleReset ==
    /\ isFilterModalOpen
    /\ selectedImage # NoImage
    /\ ~(mLoading \/ mSuccess)
    /\ selectedImage' = NoImage
    /\ mError' = ""
    /\ mSuccess' = FALSE
    /\ mLoading' = FALSE
    /\ UNCHANGED <<pageVars, fetch, modelsLoaded, task, worldVars, otherVars>>

\* a task that ended before a face was found: its closures are gone
Ended(pc) == [NoTask EXCEPT !.pc = pc]

\* positions at which a task has nothing more to do
RestPcs == {"unused", "readFailed", "rejected", "dfFailed", "noFace",
            "done", "failed"}

InFlight == {k \in TaskIds : task[k].pc \notin RestPcs}

\* the first task entry not yet used
FreeTask == CHOOSE k \in TaskIds :
                /\ task[k].pc = "unused"
                /\ \A j \in TaskIds : j < k => task[j].pc # "unused"

\* variant: the run is given the displayed list, media
handleFileSelectMedia(f) ==
    /\ isFilterModalOpen
    /\ selectedImage = NoImage
    /\ \E k \in TaskIds : task[k].pc = "unused"
    /\ Cardinality(InFlight) < MaxOverlap
    /\ IsImageFile(f)
    /\ mError' = ""
    /\ mSuccess' = FALSE
    /\ mLoading' = TRUE
    /\ task' = [task EXCEPT ![FreeTask] =
                  [NoTask EXCEPT !.pc = "reading", !.photo = f,
                                 !.L = media, !.shown = allMedia]]
    /\ UNCHANGED <<pageVars, fetch, selectedImage, modelsLoaded, worldVars, otherVars>>

\* handleFileSelect: the upload area is rendered while !selectedImage.  The
\* closures created here keep the props of the current render, so the
\* onScan they call later is the handleFaceScan that sees this allMedia.
handleFileSelect(f) ==
    /\ isFilterModalOpen
    /\ selectedImage = NoImage
    /\ IF ~IsImageFile(f)
       THEN /\ mError' = "Please select a valid image file"
            /\ mError' # mError
            /\ UNCHANGED <<mLoading, mSuccess, task>>
       ELSE /\ \E k \in TaskIds : task[k].pc = "unused"
            /\ Cardinality(InFlight) < MaxOverlap
            /\ mError' = ""
            /\ mSuccess' = FALSE
            /\ mLoading' = TRUE
            /\ task' = [task EXCEPT ![FreeTask] =
                          [NoTask EXCEPT !.pc = "reading", !.photo = f,
                                         !.L = allMedia,
                                         !.shown = allMedia]]
    /\ UNCHANGED <<pageVars, fetch, selectedImage, modelsLoaded, worldVars, otherVars>>

\* reader.onload up to its first await; ok = FALSE is the FileReader
\* failing, for which no handler is installed
ReaderOnload(k, ok) ==
    /\ task[k].pc = "reading"
    /\ IF ~ok
       THEN /\ task' = [task EXCEPT ![k] = Ended("readFailed")]
            /\ UNCHANGED selectedImage
       ELSE /\ selectedImage' = task[k].photo
            /\ task' = [task EXCEPT ![k].pc =
                          IF modelsLoaded THEN "dfLoad" ELSE "lmModels"]
    /\ UNCHANGED <<pageVars, fetch, mLoading, mError, mSuccess, modelsLoaded,
                   worldVars, otherVars>>

\* loadModels after its awaits (import, setBackend, ready, the three
\* loadFromUri); ok = FALSE is any of them rejecting: loadModels rethrows
\* and the async reader.onload ends with an unhandled rejection
LoadModelsDone(k, ok) ==
    /\ task[k].pc = "lmModels"
    /\ IF ok
       THEN /\ modelsLoaded' = TRUE
            /\ task' = [task EXCEPT ![k].pc = "dfLoad"]
       ELSE /\ task' = [task EXCEPT ![k] = Ended("rejected")]
            /\ UNCHANGED modelsLoaded
    /\ UNCHANGED <<pageVars, fetch, selectedImage, mLoading, mError, mSuccess,
                   worldVars, otherVars>>

\* variant: img.onerror resolves the awaited promise too
DetectFaceImageLoadedAnyway(k) ==
    /\ task[k].pc = "dfLoad"
    /\ task' = [task EXCEPT ![k].pc = "dfDetect"]
    /\ UNCHANGED <<pageVars, fetch, modalVars, worldVars, otherVars>>

\* detectFace: the reference image's load or error event
DetectFaceImageLoaded(k) ==
    /\ task[k].pc = "dfLoad"
    /\ IF RefImageLoads(task[k].photo)
       THEN /\ task' = [task EXCEPT ![k].pc = "dfDetect"]
            /\ UNCHANGED <<mError, mLoading>>
       ELSE /\ mError' = "Failed to detect face. Please try a different photo."
            /\ mLoading' = FALSE
            /\ task' = [task EXCEPT ![k] = Ended("dfFailed")]
    /\ UNCHANGED <<pageVars, fetch, selectedImage, mSuccess, modelsLoaded,
                   worldVars, otherVars>>

\* variant: no check of the detection before the success path
DetectFaceDoneUnchecked(k, ok) ==
    /\ task[k].pc = "dfDetect"
    /\ LET detection == DetectSingleFace(task[k].photo)
       IN  IF ~ok
           THEN /\ mError' = "Failed to detect face. Please try a different photo."
                /\ mLoading' = FALSE
                /\ task' = [task EXCEPT ![k] = Ended("dfFailed")]
                /\ UNCHANGED mSuccess
           ELSE /\ mSuccess' = TRUE
                /\ mLoading' = FALSE
                /\ task' = [task EXCEPT ![k].pc = "timeout",
                                        ![k].D = IF detection = << >>
                                                 THEN << >>
                                                 ELSE detection[1]]
                /\ UNCHANGED mError
    /\ UNCHANGED <<pageVars, fetch, selectedImage, modelsLoaded, worldVars, otherVars>>

\* detectFace after detectSingleFace settled; ok = FALSE is it rejecting
DetectFaceDone(k, ok) ==
    /\ task[k].pc = "dfDetect"
    /\ LET detection == DetectSingleFace(task[k].photo)
       IN  IF ~ok
           THEN /\ mError' = "Failed to detect face. Please try a different photo."
                /\ mLoading' = FALSE
                /\ task' = [task EXCEPT ![k] = Ended("dfFailed")]
                /\ UNCHANGED mSuccess
           ELSE IF detection = << >>
           THEN /\ mError' = "No face detected in this photo. Please choose a photo with a clear face."
                /\ mLoading' = FALSE
                /\ task' = [task EXCEPT ![k].pc = "noFace"]
                /\ UNCHANGED mSuccess
           ELSE /\ mSuccess' = TRUE
                /\ mLoading' = FALSE
                /\ task' = [task EXCEPT ![k].pc = "timeout",
                                        ![k].D = detection[1]]
                /\ UNCHANGED mError
    /\ UNCHANGED <<pageVars, fetch, selectedImage, modelsLoaded, worldVars, otherVars>>

(***************************************************************************)
(* handleFaceScan.                                                         *)
(***************************************************************************)
\* the for loop from index i up to the next await: videos are skipped
\* synchronously, the first image stops the run at its load
RECURSIVE SkipVideos(_, _)
SkipVideos(L, i) ==
    IF i < Len(L) /\ IncludesVideo(L[i + 1]) THEN SkipVideos(L, i + 1) ELSE i

\* variant: a skipped video writes no progress
LoopFromSilentVideos(t, i0) ==
    LET total == Len(t.L)
        j == SkipVideos(t.L, i0)
        t1 == [t EXCEPT
                 !.i = j,
                 !.outcomes = @ \o [x \in 1..(j - i0) |-> "video"]]
    IN  [t1 EXCEPT !.pc = IF j < total THEN "fsImgLoad" ELSE "done"]

LoopFrom(t, i0) ==
    LET total == Len(t.L)
        j == SkipVideos(t.L, i0)
        t1 == [t EXCEPT
                 !.i = j,
                 !.outcomes = @ \o [x \in 1..(j - i0) |-> "video"],
                 !.progress = @ \o [x \in 1..(j - i0) |->
                                      ProgressValue(i0 + x - 1, total)]]
    IN  [t1 EXCEPT !.pc = IF j < total THEN "fsImgLoad" ELSE "done"]

\* variant: matches.unshift(url)
ItemDoneUnshift(t, outcome) ==
    LET url == t.L[t.i + 1]
        isMatch == outcome = "detected" /\ IsMatch(FacesIn(url), t.D)
        t1 == [t EXCEPT
                 !.matches = IF isMatch THEN <<url>> \o @ ELSE @,
                 !.outcomes = Append(@, outcome),
                 !.progress = Append(@, ProgressValue(t.i, Len(t.L)))]
    IN  LoopFrom(t1, t.i + 1)

\* the end of the loop body for the image at index i, then the loop again;
\* outcome is "failed" (the catch block ran) or "detected"
ItemDone(t, outcome) ==
    LET url == t.L[t.i + 1]
        isMatch == outcome = "detected" /\ IsMatch(FacesIn(url), t.D)
        t1 == [t EXCEPT
                 !.matches = IF isMatch THEN Append(@, url) ELSE @,
                 !.outcomes = Append(@, outcome),
                 !.progress = Append(@, ProgressValue(t.i, Len(t.L)))]
    IN  LoopFrom(t1, t.i + 1)

\* variant: an empty list returns before the result is published
RunEffectsSkipEmpty(t, t2) ==
    /\ filterProgress' = IF Len(t2.progress) > Len(t.progress)
                         THEN t2.progress[Len(t2.progress)]
                         ELSE filterProgress
    /\ IF t2.pc = "done" /\ Len(t2.L) > 0
       THEN /\ media' = t2.matches
            /\ filteredCount' = Len(t2.matches)
            /\ isFiltering' = FALSE
       ELSE IF t2.pc = "done"
       THEN /\ isFiltering' = FALSE
            /\ UNCHANGED <<media, filteredCount>>
       ELSE UNCHANGED <<media, filteredCount, isFiltering>>

\* what a step of the run from t to t2 writes to the page state
RunEffects(t, t2) ==
    /\ filterProgress' = IF Len(t2.progress) > Len(t.progress)
                         THEN t2.progress[Len(t2.progress)]
                         ELSE filterProgress
    /\ IF t2.pc = "done"
       THEN /\ media' = t2.matches
            /\ filteredCount' = Len(t2.matches)
            /\ isFiltering' = FALSE
       ELSE UNCHANGED <<media, filteredCount, isFiltering>>

\* the modal's setTimeout callback: onScan(descriptor) runs handleFaceScan
\* up to its first await, then onClose() and the modal's reset
ScanTimeout(k) ==
    /\ task[k].pc = "timeout"
    /\ isFiltering' = TRUE
    /\ filterProgress' = Zero
    /\ task' = [task EXCEPT ![k].pc = "fsModels", ![k].progress = <<Zero>>]
    /\ isFilterModalOpen' = FALSE
    /\ selectedImage' = NoImage
    /\ mSuccess' = FALSE
    /\ mError' = ""
    /\ UNCHANGED <<code, media, allMedia, loading, error, filteredCount,
                   fetch, mLoading, modelsLoaded, worldVars, otherVars>>

\* variant: the rejection is logged and the loop runs anyway
ScanModelsDoneSwallowed(k, ok) ==
    /\ task[k].pc = "fsModels"
    /\ LET t2 == LoopFrom([task[k] EXCEPT !.modelLoad =
                              IF ok THEN "resolved" ELSE "rejected"], 0)
       IN  /\ task' = [task EXCEPT ![k] = t2]
           /\ RunEffects(task[k], t2)
           /\ UNCHANGED error
    /\ UNCHANGED <<code, allMedia, loading, isFilterModalOpen, fetch,
                   modalVars, worldVars, otherVars>>

\* handleFaceScan after import, setBackend, ready and the three loadFromUri
\* settled; ok = FALSE is any of them rejecting
ScanModelsDone(k, ok) ==
    /\ task[k].pc = "fsModels"
    /\ IF ok
       THEN LET t2 == LoopFrom([task[k] EXCEPT !.modelLoad = "resolved"], 0)
            IN  /\ task' = [task EXCEPT ![k] = t2]
                /\ RunEffects(task[k], t2)
                /\ UNCHANGED error
       ELSE /\ error' = "Failed to filter photos."
            /\ isFiltering' = FALSE
            /\ task' = [task EXCEPT ![k].pc = "failed",
                                    ![k].modelLoad = "rejected"]
            /\ UNCHANGED <<media, filteredCount, filterProgress>>
    /\ UNCHANGED <<code, allMedia, loading, isFilterModalOpen, fetch,
                   modalVars, worldVars, otherVars>>

\* variant: img.onerror is not wired, so a failed load never settles the
\* awaited promise
ScanImageLoadedHangs(k, ok) ==
    /\ task[k].pc = "fsImgLoad"
    /\ task' = [task EXCEPT ![k].pc = IF ok THEN "fsDetect" ELSE "fsHung"]
    /\ UNCHANGED <<pageVars, fetch, modalVars, worldVars, otherVars>>

\* variant: no try/catch around the item, a load error reaches the outer
\* catch
ScanImageLoadedAborts(k, ok) ==
    /\ task[k].pc = "fsImgLoad"
    /\ IF ok
       THEN /\ task' = [task EXCEPT ![k].pc = "fsDetect"]
            /\ UNCHANGED <<error, isFiltering>>
       ELSE /\ error' = "Failed to filter photos."
            /\ isFiltering' = FALSE
            /\ task' = [task EXCEPT ![k].pc = "failed"]
    /\ UNCHANGED <<code, media, allMedia, loading, isFilterModalOpen,
                   filterProgress, filteredCount, fetch, modalVars, worldVars, otherVars>>

\* the load or error event of the image at index i
ScanImageLoaded(k, ok) ==
    /\ task[k].pc = "fsImgLoad"
    /\ IF ok
       THEN /\ task' = [task EXCEPT ![k].pc = "fsDetect"]
            /\ UNCHANGED <<media, filteredCount, isFiltering, filterProgress>>
       ELSE LET t2 == ItemDone(task[k], "failed")
            IN  /\ task' = [task EXCEPT ![k] = t2]
                /\ RunEffects(task[k], t2)
    /\ UNCHANGED <<code, allMedia, loading, error, isFilterModalOpen, fetch,
                   modalVars, worldVars, otherVars>>

\* detectAllFaces(img) settled; ok = FALSE is it rejecting
ScanDetectDone(k, ok) ==
    /\ task[k].pc = "fsDetect"
    /\ LET t == task[k]
           t2 == ItemDone(t, IF ok THEN "detected" ELSE "failed")
       IN  /\ task' = [task EXCEPT ![k] = t2]
           /\ RunEffects(t, t2)
    /\ UNCHANGED <<code, allMedia, loading, error, isFilterModalOpen, fetch,
                   modalVars, worldVars, otherVars>>

(***************************************************************************)
(* Specification.                                                          *)
(***************************************************************************)
Next ==
    \/ \E input \in TypedInputs : SetCode(input)
    \/ FetchEventStart
    \/ \E ok \in BOOLEAN : FetchEventResolve(ok)
    \/ clearFilter
    \/ OpenFilterModal
    \/ CloseModal
    \/ handleReset
    \/ \E f \in Files : handleFileSelect(f)
    \/ \E k \in TaskIds, ok \in BOOLEAN : ReaderOnload(k, ok)
    \/ \E k \in TaskIds, ok \in BOOLEAN : LoadModelsDone(k, ok)
    \/ \E k \in TaskIds : DetectFaceImageLoaded(k)
    \/ \E k \in TaskIds, ok \in BOOLEAN : DetectFaceDone(k, ok)
    \/ \E k \in TaskIds : ScanTimeout(k)
    \/ \E k \in TaskIds, ok \in BOOLEAN : ScanModelsDone(k, ok)
    \/ \E k \in TaskIds, ok \in BOOLEAN : ScanImageLoaded(k, ok)
    \/ \E k \in TaskIds, ok \in BOOLEAN : ScanDetectDone(k, ok)

Spec == Init /\ [][Next]_vars

(***************************************************************************)
(* Properties of the filter run.                                           *)
(***************************************************************************)
RECURSIVE IsSubseq(_, _)
IsSubseq(s, t) ==
    IF s = << >> THEN TRUE
    ELSE IF t = << >> THEN FALSE
    ELSE IF Head(s) = Head(t) THEN IsSubseq(Tail(s), Tail(t))
    ELSE IsSubseq(s, Tail(t))

\* a URL carrying the '/video/' marker
HasVideoMarker(url) == \E j \in DOMAIN url : j < Len(url) /\ url[j] = "video"

\* some face of the image lies strictly closer than 0.6 to D (36 is 0.6
\* squared, in tenths)
SomeFaceWithin06(url, D) ==
    \E x \in DOMAIN FacesIn(url) : SumSq(FacesIn(url)[x], D) < 36

Done(k) == task[k].pc = "done"

\* C1: the match list of a completed filter run is a subsequence of the
\* list the run was given: only its URLs, none more often than there, in
\* the same relative order.
C1_MatchesSubsequence ==
    \A k \in TaskIds : Done(k) => IsSubseq(task[k].matches, task[k].L)

\* two matches with non-matching items between and before them
C1_Witness ==
    \E k \in TaskIds :
        /\ Done(k)
        /\ task[k].L = ScenarioL
        /\ task[k].matches = <<ImgA, ImgC>>

\* C2: a video item is never in the match list, neither its load nor a
\* detection is ever awaited, and the run still writes a progress value for
\* it.
C2_VideosNeverMatched ==
    \A k \in TaskIds :
        LET t == task[k] IN
        /\ \A j \in DOMAIN t.matches : ~HasVideoMarker(t.matches[j])
        /\ t.pc \in {"fsImgLoad", "fsDetect"} => ~HasVideoMarker(t.L[t.i + 1])
        /\ \A j \in DOMAIN t.outcomes :
               HasVideoMarker(t.L[j]) <=> t.outcomes[j] = "video"
        /\ t.pc \in {"fsImgLoad", "fsDetect", "done"} =>
               Len(t.progress) = 1 + Len(t.outcomes)

\* a completed run over a list with a video whose faces are those of the
\* reference
C2_Witness ==
    \E k \in TaskIds :
        /\ Done(k)
        /\ task[k].L = ScenarioL
        /\ task[k].D = RefA
        /\ SomeFaceWithin06(Video1, task[k].D)
        /\ task[k].outcomes[3] = "video"
        /\ Len(task[k].progress) = 5

\* the items of L that are no video, were decoded and examined without an
\* error, and show a face within 0.6 of D, in the order of L
RECURSIVE ExpectedMatches(_, _, _, _)
ExpectedMatches(L, outcomes, D, j) ==
    IF j > Len(L) THEN << >>
    ELSE (IF /\ ~HasVideoMarker(L[j])
             /\ outcomes[j] = "detected"
             /\ SomeFaceWithin06(L[j], D)
          THEN <<L[j]>> ELSE << >>)
         \o ExpectedMatches(L, outcomes, D, j + 1)

\* C3: in a completed run an item is in the match list exactly if it is no
\* video, was decoded and examined without an error, and shows at least one
\* face strictly closer than 0.6 to the reference; the scenario list with
\* the reference face of imgA gives [imgA], count 1.
C3_MatchExactlyBelowThreshold ==
    \A k \in TaskIds :
        Done(k) =>
            LET t == task[k] IN
            /\ Len(t.outcomes) = Len(t.L)
            /\ t.matches = ExpectedMatches(t.L, t.outcomes, t.D, 1)
            /\ (/\ t.L = ScenarioL
                /\ t.D = RefA
                /\ \A j \in DOMAIN t.outcomes : t.outcomes[j] # "failed")
               => t.matches = <<ImgA>> /\ Len(t.matches) = 1

\* the scenario, every image decoded and examined
C3_Witness ==
    \E k \in TaskIds :
        /\ Done(k)
        /\ task[k].L = ScenarioL
        /\ task[k].D = RefA
        /\ task[k].outcomes = <<"detected", "detected", "video", "detected">>
        /\ task[k].matches = <<ImgA>>

\* C4: when the model loading of a run rejects, the run ends failed with
\* the error set and isFiltering false, having processed no item and
\* written no progress but the initial 0, and with media, filteredCount and
\* filterProgress as they were; a failed run does nothing more.
C4_ModelLoadFailure ==
    [][\A k \in TaskIds :
         /\ (task[k].pc = "fsModels" /\ task'[k].modelLoad = "rejected") =>
               /\ task'[k].pc = "failed"
               /\ error' = "Failed to filter photos."
               /\ isFiltering' = FALSE
               /\ media' = media
               /\ filteredCount' = filteredCount
               /\ filterProgress' = filterProgress
               /\ task'[k].outcomes = << >>
               /\ task'[k].progress = <<Zero>>
         /\ task[k].pc = "failed" => task'[k] = task[k]]_vars

\* a run that failed while the page showed the unfiltered list
C4_Witness ==
    \E k \in TaskIds :
        /\ task[k].pc = "failed"
        /\ task[k].modelLoad = "rejected"
        /\ error = "Failed to filter photos."
        /\ ~isFiltering
        /\ media = ScenarioL

\* C5: the values a run writes to filterProgress never decrease, and the
\* last one written by a completed run over a non-empty list is 100.
C5_ProgressMonotoneTo100 ==
    \A k \in TaskIds :
        LET p == task[k].progress IN
        /\ \A j \in 1..(Len(p) - 1) : FracLeq(p[j], p[j + 1])
        /\ (Done(k) /\ task[k].L # << >>) => p[Len(p)] = <<100, 1>>

\* a completed run whose last item failed, after a video and a match
C5_Witness ==
    \E k \in TaskIds :
        /\ Done(k)
        /\ task[k].L = ScenarioL
        /\ task[k].outcomes = <<"detected", "detected", "video", "failed">>
        /\ task[k].progress = <<Zero, <<25, 1>>, <<50, 1>>, <<75, 1>>, <<100, 1>> >>

\* C6: a run over an empty list, once its models are loaded, completes in
\* that same step: nothing is decoded or examined, the published match list
\* is empty, the count is 0, isFiltering is false and error is untouched.
C6_EmptyListCompletes ==
    [][\A k \in TaskIds :
         (/\ task[k].pc = "fsModels"
          /\ task[k].L = << >>
          /\ task'[k].modelLoad = "resolved") =>
             /\ task'[k].pc = "done"
             /\ task'[k].matches = << >>
             /\ task'[k].outcomes = << >>
             /\ media' = << >>
             /\ filteredCount' = 0
             /\ isFiltering' = FALSE
             /\ error' = error]_vars

\* a completed run over the empty list
C6_Witness ==
    \E k \in TaskIds :
        /\ Done(k)
        /\ task[k].L = << >>
        /\ task[k].shown = << >>
        /\ task[k].modelLoad = "resolved"

\* C7: a failure of an item's load or detection leaves the match list and
\* the page's error as they were and never ends the run as failed; the run
\* goes on with the next item and completes with an outcome for every item.
C7_ItemFailureNeverAborts ==
    [][\A k \in TaskIds :
         LET t == task[k]
             u == task'[k]
         IN  (t.pc \in {"fsImgLoad", "fsDetect"} /\ u # t) =>
                /\ error' = error
                /\ u.pc \in {"fsImgLoad", "fsDetect", "done"}
                /\ (u.pc = "fsDetect") => (u.i = t.i /\ u.outcomes = t.outcomes)
                /\ (u.pc # "fsDetect") =>
                      /\ Len(u.outcomes) > Len(t.outcomes)
                      /\ u.i > t.i
                      /\ (u.outcomes[Len(t.outcomes) + 1] = "failed"
                            => u.matches = t.matches)
                /\ (u.pc = "done") =>
                      /\ Len(u.outcomes) = Len(u.L)
                      /\ media' = u.matches]_vars

\* a completed run whose first item failed and whose last item matched
C7_Witness ==
    \E k \in TaskIds :
        /\ Done(k)
        /\ task[k].L = ScenarioL
        /\ task[k].outcomes = <<"failed", "detected", "video", "detected">>
        /\ task[k].matches = <<ImgC>>
        /\ error = ""

C10_NoFaceNoScan ==
    [][\A k \in TaskIds :
         LET t == task[k]
             u == task'[k]
         IN  /\ (/\ t.pc = "dfDetect"
                 /\ DetectSingleFace(t.photo) = << >>
                 /\ u # t) =>
                    /\ u.pc \in {"noFace", "dfFailed"}
                    /\ (u.pc = "noFace") =>
                          /\ mError' = "No face detected in this photo. Please choose a photo with a clear face."
                          /\ mLoading' = FALSE
                          /\ isFilterModalOpen' = isFilterModalOpen
                          /\ isFiltering' = isFiltering
             /\ t.pc = "noFace" => u = t
             /\ (u.pc = "fsModels" /\ t.pc # "fsModels") =>
                    /\ DetectSingleFace(t.photo) # << >>
                    /\ u.D = DetectSingleFace(t.photo)[1]]_vars

\* the modal open on the no-face message
C10_Witness ==
    \E k \in TaskIds :
        /\ task[k].pc = "noFace"
        /\ task[k].photo = "landscape"
        /\ isFilterModalOpen
        /\ ~mLoading
        /\ mError = "No face detected in this photo. Please choose a photo with a clear face."

(***************************************************************************)
(* Termination of a run.  The promises a run awaits (the model loading,    *)
(* an image's load or error event, a detection) settle, and the event loop *)
(* then resumes the run: each of its steps is weakly fair.                 *)
(***************************************************************************)
RunStep(k) ==
    \/ \E ok \in BOOLEAN : ScanModelsDone(k, ok)
    \/ \E ok \in BOOLEAN : ScanImageLoaded(k, ok)
    \/ \E ok \in BOOLEAN : ScanDetectDone(k, ok)

\* the list of the termination check: an image after a video
LiveLists == {<<Video1, ImgA>>}

LiveInit == InitWith(LiveLists)

LiveSpec ==
    LiveInit /\ [][Next]_vars /\ \A k \in TaskIds : WF_vars(RunStep(k))

\* C8: every started filter run ends, completed or failed, and at its end
\* isFiltering is false; it does not stay in the scanning state forever.
C8_RunEventuallyEnds ==
    \A k \in TaskIds :
        (task[k].pc \in ScanPcs) ~> (task[k].pc \in EndPcs /\ ~isFiltering)

\* a run past the video and examining the image while another run is
\* scanning
C8_Witness ==
    /\ task[1].pc = "fsDetect" /\ task[1].L = <<Video1, ImgA>> /\ task[1].i = 1
    /\ task[2].pc = "fsImgLoad"
    /\ isFiltering

(***************************************************************************)
(* The clock, and lookups of an event that is absent or has expired.       *)
(***************************************************************************)
\* an hour passes
Tick ==
    /\ now < MaxNow
    /\ now' = now + 1
    /\ UNCHANGED <<pageVars, fetch, modalVars, task, events, localStorage,
                   otherVars>>

\* the list of the event looked up while the clock runs
ExpiryLists == {<<ImgA>>}

\* a store with an event of one hour under 12345, or with no event at all
ExpiryInit ==
    \/ InitWith(ExpiryLists)
    \/ PageInit /\ events = [c \in StoreCodes |-> NoEvent]

ExpiryNext == Next \/ Tick

ExpirySpec == ExpiryInit /\ [][ExpiryNext]_vars

\* the event under code c is absent, or its expiresAt is in the past
AbsentOrExpired(c) ==
    \/ ~events[c].exists
    \/ events[c].hasExpiry /\ events[c].expiresAt < now

\* C11: a lookup whose getDoc resolved for a code whose event is absent or
\* expired ends with the invalid-or-expired message, with media and allMedia
\* empty, with loading false and with that code's cache entry removed.
C11_MissLeavesNothing ==
    [][(/\ fetch.pc = "getDoc"
        /\ fetch'.pc = "idle"
        /\ error' # "Something went wrong"
        /\ AbsentOrExpired(fetch.code)) =>
           /\ error' \in {"Invalid or expired code", "This event has expired"}
           /\ media' = << >>
           /\ allMedia' = << >>
           /\ ~loading'
           /\ localStorage'.cache[fetch.code] = NoEntry]_vars

(***************************************************************************)
(* Model loading and the overlap of filter runs.                           *)
(***************************************************************************)
\* the tasks whose model loading is in flight: loadModels of the modal, or
\* the loading at the start of handleFaceScan
LoadingModels == {k \in TaskIds : task[k].pc \in {"lmModels", "fsModels"}}

\* C12: the backend and the three models are loaded once per page lifetime:
\* no load is in flight while another one is, and none after one succeeded.
C12_ModelsLoadedOnce ==
    /\ Cardinality(LoadingModels) <= 1
    /\ LoadingModels # {} => ~modelsLoaded

\* the tasks inside handleFaceScan
Scanning == {k \in TaskIds : task[k].pc \in ScanPcs}

\* C14: items are processed one at a time: at most one image load or
\* detection is in flight, and two filter runs never overlap.
C14_OneRunOneItem ==
    /\ Cardinality({k \in TaskIds : task[k].pc \in {"fsImgLoad", "fsDetect"}}) <= 1
    /\ Cardinality(Scanning) <= 1

\* C15: when loadModels fails during reference extraction, the modal ends
\* with an error message and loading false, and no filter run starts from
\* that photo.
C15_ModalLoadFailureSurfaced ==
    [][\A k \in TaskIds :
         /\ (task[k].pc = "lmModels" /\ task'[k].pc = "rejected") =>
               /\ mError' # ""
               /\ ~mLoading'
         /\ task[k].pc = "rejected" => task'[k].pc = "rejected"]_vars

(***************************************************************************)
(* FaceFilterModal: the live-camera reference capture.  Its parent is any  *)
(* component that passes isOpen, onClose and onScan.  React runs the       *)
(* effects whose dependencies changed before the next event is handled, so *)
(* each action below ends with the effects it causes.                      *)
(***************************************************************************)
camVars == <<pageVars, fetch, modalVars, task, worldVars, generated, sweep,
            viewer, upload>>

\* the cleanup of the polling effect: running = false in every closure
StopChains(ch) == [c \in ChainIds |-> [ch[c] EXCEPT !.running = FALSE]]

HasFreeChain(ch) == \E c \in ChainIds : ch[c].pc = "unused"

FreeChain(ch) == CHOOSE c \in ChainIds :
                     /\ ch[c].pc = "unused"
                     /\ \A d \in ChainIds : d < c => ch[d].pc # "unused"

\* requestAnimationFrame(detectAndScan) of a new run of the polling effect
StartChain(ch) ==
    [ch EXCEPT ![FreeChain(ch)] = [NoChain EXCEPT !.pc = "raf", !.running = TRUE]]

\* one run of the polling effect: the previous run's cleanup, then
\* if (!isOpen || loading || hasScanned.current) return; else a new chain
PollingEffect(ch, open, ld, scanned) ==
    IF open /\ ~ld /\ ~scanned THEN StartChain(StopChains(ch)) ELSE StopChains(ch)

PollingStarts(open, ld, scanned) == open /\ ~ld /\ ~scanned

\* the parent sets isOpen: the reset effect, the initialising effect
\* (loadModels up to its first await) and the polling effect run with the
\* loading of the render that opened the modal; the queued setLoading calls
\* then give loading = !modelsLoaded.current and, if that differs, the
\* polling effect runs again
CamOpen ==
    /\ ~cam.isOpen
    /\ cam.opening < MaxOpenings
    /\ LET ld1 == ~cam.modelsLoaded
           first == PollingEffect(cam.chains, TRUE, cam.loading, FALSE)
           second == IF ld1 = cam.loading THEN first
                     ELSE PollingEffect(first, TRUE, ld1, FALSE)
       IN  /\ PollingStarts(TRUE, cam.loading, FALSE) => HasFreeChain(cam.chains)
           /\ (ld1 # cam.loading /\ PollingStarts(TRUE, ld1, FALSE)) =>
                 HasFreeChain(first)
           /\ cam' = [cam EXCEPT
                        !.isOpen = TRUE,
                        !.hasScanned = FALSE,
                        !.scanning = FALSE,
                        !.error = "",
                        !.loading = ld1,
                        !.load = IF cam.modelsLoaded THEN @ ELSE @ + 1,
                        !.opening = @ + 1,
                        !.entered = 0,
                        !.chains = second]
    /\ UNCHANGED camVars

\* the parent clears isOpen (the X button's onClose): the polling effect's
\* cleanup runs and its body returns
CamClose ==
    /\ cam.isOpen
    /\ cam' = [cam EXCEPT !.isOpen = FALSE, !.chains = StopChains(@)]
    /\ UNCHANGED camVars

\* loadModels after its awaits; ok = FALSE is any of them rejecting
CamLoadDone(ok) ==
    /\ cam.load > 0
    /\ (cam.loading /\ PollingStarts(cam.isOpen, FALSE, cam.hasScanned)) =>
          HasFreeChain(cam.chains)
    /\ cam' = [cam EXCEPT
                 !.load = @ - 1,
                 !.modelsLoaded = IF ok THEN TRUE ELSE @,
                 !.error = IF ok THEN @ ELSE "Failed to load face detection models",
                 !.loading = FALSE,
                 !.chains = IF cam.loading
                            THEN PollingEffect(@, cam.isOpen, FALSE, cam.hasScanned)
                            ELSE @]
    /\ UNCHANGED camVars

\* the parent renders again and passes new onScan and onClose functions:
\* the polling effect's dependencies changed
CamParentRender ==
    /\ \E c \in ChainIds : cam.chains[c].running
    /\ PollingStarts(cam.isOpen, cam.loading, cam.hasScanned) =>
          HasFreeChain(cam.chains)
    /\ cam' = [cam EXCEPT
                 !.chains = PollingEffect(@, cam.isOpen, cam.loading,
                                          cam.hasScanned)]
    /\ UNCHANGED camVars

\* the animation frame: detectAndScan up to its first await.  videoRef is
\* null while the modal renders nothing
CamFrame(c) ==
    /\ cam.chains[c].pc = "raf"
    /\ cam' = [cam EXCEPT
                 !.chains[c] =
                    IF ~cam.isOpen \/ ~@.running \/ cam.hasScanned
                    THEN NoChain
                    ELSE [@ EXCEPT !.pc = "detecting"]]
    /\ UNCHANGED camVars

DetectionResults == {"face", "none", "throws"}

\* variant: the detection is not checked against hasScanned
CamDetectDoneUnguarded(c, res) ==
    /\ cam.chains[c].pc = "detecting"
    /\ IF res = "face"
       THEN cam' = [cam EXCEPT
                      !.hasScanned = TRUE,
                      !.scanning = TRUE,
                      !.entered = @ + 1,
                      !.chains[c] = [@ EXCEPT !.pc = "feedback",
                                              !.enteredIn = cam.opening]]
       ELSE cam' = [cam EXCEPT
                      !.chains[c] =
                         IF @.running /\ ~cam.hasScanned
                         THEN [@ EXCEPT !.pc = "raf"]
                         ELSE NoChain]
    /\ UNCHANGED camVars

\* detectAndScan after detectSingleFace settled
CamDetectDone(c, res) ==
    /\ cam.chains[c].pc = "detecting"
    /\ IF res = "face" /\ ~cam.hasScanned
       THEN cam' = [cam EXCEPT
                      !.hasScanned = TRUE,
                      !.scanning = TRUE,
                      !.entered = @ + 1,
                      !.chains[c] = [@ EXCEPT !.pc = "feedback",
                                              !.enteredIn = cam.opening]]
       ELSE cam' = [cam EXCEPT
                      !.chains[c] =
                         IF @.running /\ ~cam.hasScanned
                         THEN [@ EXCEPT !.pc = "raf"]
                         ELSE NoChain]
    /\ UNCHANGED camVars

\* after the 500 ms of feedback: onScan(detection.descriptor), and the
\* timer for onClose is set
CamFeedbackDone(c) ==
    /\ cam.chains[c].pc = "feedback"
    /\ cam' = [cam EXCEPT
                 !.scans[cam.chains[c].enteredIn] = @ + 1,
                 !.chains[c] = [@ EXCEPT !.pc = "closing"]]
    /\ UNCHANGED camVars

\* the 800 ms timer: onClose()
CamCloseTimer(c) ==
    /\ cam.chains[c].pc = "closing"
    /\ cam' = [cam EXCEPT
                 !.isOpen = FALSE,
                 !.chains = [StopChains(@) EXCEPT ![c] = NoChain]]
    /\ UNCHANGED camVars

CameraNext ==
    \/ CamOpen
    \/ CamClose
    \/ \E ok \in BOOLEAN : CamLoadDone(ok)
    \/ CamParentRender
    \/ \E c \in ChainIds : CamFrame(c)
    \/ \E c \in ChainIds, res \in DetectionResults : CamDetectDone(c, res)
    \/ \E c \in ChainIds : CamFeedbackDone(c)
    \/ \E c \in ChainIds : CamCloseTimer(c)

CameraSpec == InitWith(ExpiryLists) /\ [][CameraNext]_vars

\* C13: in each opening of the camera modal the terminal state is entered
\* at most once and onScan is invoked at most once for it; once a detection
\* has succeeded, no frame is scheduled, no detection started and no second
\* success accepted in that opening.
C13_TerminalOnce ==
    [][/\ cam'.entered <= 1
       /\ \A o \in 1..MaxOpenings : cam'.scans[o] <= 1
       /\ (cam.hasScanned /\ cam'.opening = cam.opening) =>
             \A c \in ChainIds :
                 /\ cam'.chains[c].pc = "raf" => cam.chains[c].pc = "raf"
                 /\ cam'.chains[c].pc = "detecting" =>
                       cam.chains[c].pc = "detecting"
                 /\ cam'.chains[c].pc = "feedback" =>
                       cam.chains[c].pc = "feedback"]_vars

\* a success while the detection of a stopped chain is still in flight, and
\* onScan invoked for it
C13_Witness ==
    \E c, d \in ChainIds :
        /\ cam.hasScanned
        /\ cam.entered = 1
        /\ cam.chains[c].pc = "closing"
        /\ cam.scans[cam.chains[c].enteredIn] = 1
        /\ cam.chains[d].pc = "detecting"
        /\ ~cam.chains[d].running

(***************************************************************************)
(* generateCode (src/lib/utils.ts).  Math.random() is k / 2^RandomBits for *)
(* 0 <= k < 2^RandomBits; with that many bits the product with 90000 and   *)
(* the sum with 10000 are exact in double precision.                       *)
(***************************************************************************)
RECURSIVE Pow2(_)
Pow2(n) == IF n = 0 THEN 1 ELSE 2 * Pow2(n - 1)

RandomValues == 0..(Pow2(RandomBits) - 1)

CodeBase == 10000
CodeSpan == 90000

DigitChars == <<"0", "1", "2", "3", "4", "5", "6", "7", "8", "9">>

\* Number.prototype.toString() of a non-negative integer
RECURSIVE NumberToString(_)
NumberToString(n) ==
    IF n < 10 THEN <<DigitChars[n + 1]>>
    ELSE Append(NumberToString(n \div 10), DigitChars[(n % 10) + 1])

\* variant: 10000 + Math.random() * 100000
generateCodeWide(k) ==
    NumberToString(CodeBase + (k * ((CodeSpan + CodeBase) \div 32)) \div (Pow2(RandomBits) \div 32))

\* Math.floor(10000 + Math.random() * 90000).toString(); the quotient
\* k * 90000 / 2^RandomBits is computed with both terms divided by 16
generateCode(k) ==
    NumberToString(CodeBase + (k * (CodeSpan \div 16)) \div (Pow2(RandomBits) \div 16))

\* the value Math.random() is about to return, k / 2^RandomBits, any of
\* its values
CodeInit ==
    /\ \E k \in RandomValues : PageStart([r |-> k, code |-> << >>])
    /\ events = [c \in StoreCodes |-> NoEvent]

\* the call of generateCode
GenerateCodeCall ==
    /\ generated.code = << >>
    /\ generated' = [generated EXCEPT !.code = generateCode(generated.r)]
    /\ UNCHANGED <<pageVars, fetch, modalVars, task, worldVars, cam, sweep,
                   viewer, upload>>

CodeNext == GenerateCodeCall

CodeSpec == CodeInit /\ [][CodeNext]_vars

\* C18: every code generateCode returns is a string of exactly 5 ASCII
\* digits, whatever Math.random() returned.
C18_CodeFiveDigits ==
    generated.code # << >> =>
        /\ Len(generated.code) = 5
        /\ \A j \in 1..Len(generated.code) : generated.code[j] \in Digits

\* the largest value of Math.random(), giving the largest code
C18_Witness ==
    /\ generated.r = Pow2(RandomBits) - 1
    /\ generated.code = Code99999

(***************************************************************************)
(* The event store: createEvent (src/actions/createEvent.ts) and the       *)
(* cleanup route (src/app/api/cleanup/route.ts).                           *)
(***************************************************************************)
\* values of Math.random() whose code is one of the store's two
RandomSamples ==
    {k \in {3416 * Pow2(RandomBits - 17), Pow2(RandomBits) - 1} :
       generateCode(k) \in StoreCodes}

StoreLists == {<<ImgA>>, <<ImgB, Video1>>}

\* durationHours: createEvent takes any number; the upload pages pass 6, 12
\* or 24
DurationHours == {0, 1, 6}

\* addHoursToNow(hours), in hours
addHoursToNow(hours) == now + hours

\* createEvent: the code, expiresAt and createdAt are computed before the
\* await of eventRef.set, which writes the whole document under the code
createEvent(k, files, durationHours) ==
    /\ generateCode(k) \in StoreCodes
    /\ LET c == generateCode(k)
           expiresAt == addHoursToNow(durationHours)
       IN  /\ events' = [events EXCEPT ![c] =
                           [exists |-> TRUE, urls |-> files,
                            hasExpiry |-> TRUE, expiresAt |-> expiresAt,
                            createdAt |-> now]]
           /\ generated' = [r |-> k, code |-> c]
    /\ UNCHANGED <<pageVars, fetch, modalVars, task, localStorage, now, cam,
                   sweep, viewer, upload>>

\* the value stored in expiresAt (Timestamp.fromDate) and the operand of
\* the cleanup query (new Date().toISOString()), each with its Firestore type
StoredExpiresAt(e) == [type |-> "timestamp", v |-> e.expiresAt]
QueryNow(t) == [type |-> "string", v |-> t]

\* where(field, '<', value): a range filter matches a field only if it has
\* the type of the operand
FieldFilterLess(field, value) == field.type = value.type /\ field.v < value.v

\* GET up to its await of getDocs
SweepStart ==
    /\ sweep.pc = "idle"
    /\ sweep' = [pc |-> "query", now |-> now, status |-> 0, deleted |-> 0,
                 error |-> ""]
    /\ UNCHANGED <<pageVars, fetch, modalVars, task, worldVars, cam, generated,
                   viewer, upload>>

\* GET after getDocs settled; ok = FALSE is getDocs or a deleteDoc
\* rejecting.  The deletions of the snapshot's documents are awaited
\* together and the response sent
SweepDone(ok) ==
    /\ sweep.pc = "query"
    /\ LET docs == {c \in StoreCodes :
                      /\ events[c].exists
                      /\ FieldFilterLess(StoredExpiresAt(events[c]),
                                         QueryNow(sweep.now))}
       IN  IF ok
           THEN /\ events' = [c \in StoreCodes |->
                                IF c \in docs THEN NoEvent ELSE events[c]]
                /\ sweep' = [sweep EXCEPT !.pc = "idle", !.status = 200,
                                          !.deleted = Cardinality(docs)]
           ELSE /\ \E landed \in SUBSET docs :
                     events' = [c \in StoreCodes |->
                                  IF c \in landed THEN NoEvent ELSE events[c]]
                /\ sweep' = [sweep EXCEPT !.pc = "idle", !.status = 500,
                                          !.error = "Cleanup failed"]
    /\ UNCHANGED <<pageVars, fetch, modalVars, task, localStorage, now, cam,
                   generated, viewer, upload>>

StoreInit == PageInit /\ events = [c \in StoreCodes |-> NoEvent]

StoreNext ==
    \/ \E k \in RandomSamples, files \in StoreLists, h \in DurationHours :
          createEvent(k, files, h)
    \/ SweepStart
    \/ \E ok \in BOOLEAN : SweepDone(ok)
    \/ Tick

StoreSpec == StoreInit /\ [][StoreNext]_vars

C17_EventsReadOnly ==
    [][\A c \in StoreCodes :
         (events[c].exists /\ events'[c].exists) => events'[c] = events[c]]_vars

\* C19: a sweep that succeeds deletes every event whose expiresAt had passed
\* when it started and no other, and reports the number deleted; one that
\* fails reports 'Cleanup failed' with status 500.
C19_SweepDeletesExpired ==
    [][(sweep.pc = "query" /\ sweep'.pc = "idle") =>
          IF sweep'.status = 200
          THEN /\ \A c \in StoreCodes :
                     IF events[c].exists /\ events[c].expiresAt < sweep.now
                     THEN ~events'[c].exists
                     ELSE events'[c] = events[c]
               /\ sweep'.deleted =
                     Cardinality({c \in StoreCodes :
                                    events[c].exists /\ ~events'[c].exists})
          ELSE /\ sweep'.status = 500
               /\ sweep'.error = "Cleanup failed"]_vars

(***************************************************************************)
(* The view page's mount effect (src/app/view/page.tsx 38-63), in a        *)
(* browser that remembers a code from the upload page.                     *)
(***************************************************************************)
HistoryKept == 9

\* variant: history.slice(0, 10)
StoreUploadKeepsTen(ls, c, d, n) ==
    [ls EXCEPT
       !.activeEventCode = c,
       !.lastEventCode = c,
       !.eventHistory =
          <<[code |-> c, duration |-> d, uploadedAt |-> now, fileCount |-> n]>>
          \o SubSeq(@, 1, IF Len(@) < HistoryKept + 1 THEN Len(@)
                          ELSE HistoryKept + 1)]

\* what handleSubmit stores once createEvent returned the code c:
\* activeEventCode, lastEventCode and
\* eventHistory = [newEntry, ...history.slice(0, 9)]
StoreUpload(ls, c, d, n) ==
    [ls EXCEPT
       !.activeEventCode = c,
       !.lastEventCode = c,
       !.eventHistory =
          <<[code |-> c, duration |-> d, uploadedAt |-> now, fileCount |-> n]>>
          \o SubSeq(@, 1, IF Len(@) < HistoryKept THEN Len(@) ELSE HistoryKept)]

\* the upload page after createEvent succeeded for the stored event c: it
\* remembers the code
RememberCode(c) ==
    /\ events[c].exists
    /\ localStorage.lastEventCode # c
    /\ localStorage' = StoreUpload(localStorage, c,
                                   events[c].expiresAt - events[c].createdAt,
                                   Len(events[c].urls))
    /\ UNCHANGED <<pageVars, fetch, modalVars, task, events, now, otherVars>>

\* localStorage.getItem('lastEventCode') ||
\* localStorage.getItem('activeEventCode')
LastCode ==
    IF localStorage.lastEventCode # << >> THEN localStorage.lastEventCode
    ELSE localStorage.activeEventCode

CacheTtlHours == 24

\* variant: age <= 24 hours
CacheFreshInclusive(c) ==
    /\ c \in StoreCodes
    /\ localStorage.cache[c].present
    /\ now - localStorage.cache[c].time <= CacheTtlHours

\* loadCachedMedia: cached && cacheTime, and age < 24 hours
CacheFresh(c) ==
    /\ c \in StoreCodes
    /\ localStorage.cache[c].present
    /\ now - localStorage.cache[c].time < CacheTtlHours

\* variant: fetchEvent without its test of code.length.  The mount's call
\* runs with code '': the lists are cleared, doc(db, 'events', '') throws,
\* the catch block sets the error, finally ends loading
PageMountUnguarded ==
    /\ code' = IF Len(LastCode) = 5 THEN LastCode ELSE << >>
    /\ media' = << >>
    /\ allMedia' = << >>
    /\ loading' = FALSE
    /\ error' = IF Len(LastCode) = 5 THEN "Something went wrong" ELSE ""
    /\ isFilterModalOpen' = FALSE
    /\ isFiltering' = FALSE
    /\ filterProgress' = Zero
    /\ filteredCount' = 0
    /\ fetch' = [pc |-> "idle", code |-> << >>]
    /\ selectedImage' = NoImage
    /\ mLoading' = FALSE
    /\ mError' = ""
    /\ mSuccess' = FALSE
    /\ modelsLoaded' = FALSE
    /\ task' = [k \in TaskIds |-> NoTask]
    /\ viewer' = NoViewer
    /\ UNCHANGED <<worldVars, cam, generated, sweep, upload>>

\* the page is loaded: the component starts from its initial state, and
\* the mount effect runs with the closures of the first render, in which
\* code is '': setCode, loadCachedMedia, and its call of fetchEvent, which
\* returns at its test of code.length
PageMount ==
    /\ code' = IF Len(LastCode) = 5 THEN LastCode ELSE << >>
    /\ IF Len(LastCode) = 5 /\ CacheFresh(LastCode)
       THEN /\ media' = localStorage.cache[LastCode].media
            /\ allMedia' = localStorage.cache[LastCode].media
       ELSE /\ media' = << >>
            /\ allMedia' = << >>
    /\ loading' = FALSE
    /\ error' = ""
    /\ isFilterModalOpen' = FALSE
    /\ isFiltering' = FALSE
    /\ filterProgress' = Zero
    /\ filteredCount' = 0
    /\ fetch' = [pc |-> "idle", code |-> << >>]
    /\ selectedImage' = NoImage
    /\ mLoading' = FALSE
    /\ mError' = ""
    /\ mSuccess' = FALSE
    /\ modelsLoaded' = FALSE
    /\ task' = [k \in TaskIds |-> NoTask]
    /\ viewer' = NoViewer
    /\ UNCHANGED <<worldVars, cam, generated, sweep, upload>>

\* the browser stays closed for an hour less than the cache's 24
DayPasses ==
    /\ now < CacheTtlHours - 1
    /\ now' = now + CacheTtlHours - 1
    /\ UNCHANGED <<pageVars, fetch, modalVars, task, events, localStorage,
                   otherVars>>

MountNext ==
    \/ \E c \in StoreCodes : RememberCode(c)
    \/ PageMount
    \/ \E input \in TypedInputs : SetCode(input)
    \/ FetchEventStart
    \/ \E ok \in BOOLEAN : FetchEventResolve(ok)
    \/ Tick
    \/ DayPasses

MountSpec == InitWith(ExpiryLists) /\ [][MountNext]_vars

\* C20: a mount that shows the cached media of the remembered code also
\* starts a store lookup for that code.
C20_MountVerifiesCache ==
    [][(PageMount /\ media' # << >>) =>
          (fetch'.pc = "getDoc" /\ fetch'.code = code')]_vars

\* C21: the mount shows a cached list only from an entry less than 24 hours
\* old, and then shows exactly that entry's list; an entry of 24 hours or
\* more is never shown.  A successful lookup (one not abandoned by a page
\* load) rewrites the entry of its code with the fetched list and the
\* current time.
C21_CacheWindow ==
    [][/\ PageMount =>
            /\ allMedia' = media'
            /\ media' # << >> =>
                  /\ code' \in StoreCodes
                  /\ localStorage.cache[code'].present
                  /\ now - localStorage.cache[code'].time < CacheTtlHours
                  /\ media' = localStorage.cache[code'].media
       /\ (fetch.pc = "getDoc" /\ fetch'.pc = "idle" /\ error' = ""
           /\ ~PageMount) =>
            /\ localStorage'.cache[fetch.code] =
                  [present |-> TRUE, media |-> events[fetch.code].urls,
                   time |-> now]
            /\ media' = events[fetch.code].urls]_vars

\* the page showing the list of an entry 23 hours old, of an event that has
\* expired since
C21_Witness ==
    /\ code = Code12345
    /\ localStorage.lastEventCode = Code12345
    /\ localStorage.cache[code].present
    /\ now - localStorage.cache[code].time = CacheTtlHours - 1
    /\ media = localStorage.cache[code].media
    /\ media # << >>
    /\ events[code].expiresAt < now
    /\ fetch.pc = "idle"

(***************************************************************************)
(* Progress, states and ordering of a filter run.                          *)
(***************************************************************************)
\* C22: a run past its model loading has written the initial 0 and then one
\* progress value per item dealt with, the value for the item at index i
\* being ((i + 1) / N) * 100, whatever became of the item; a completed run
\* has dealt with all N items, so it has written exactly N values after the
\* 0.
C22_OneProgressPerItem ==
    \A k \in TaskIds :
        LET t == task[k]
            N == Len(t.L)
        IN  t.pc \in {"fsImgLoad", "fsDetect", "done"} =>
               /\ t.progress[1] = <<0, 1>>
               /\ Len(t.progress) = 1 + Len(t.outcomes)
               /\ Len(t.outcomes) = t.i
               /\ \A j \in 1..Len(t.outcomes) :
                      t.progress[j + 1] = Fraction(j * 100, N)
               /\ t.pc = "done" => Len(t.outcomes) = N

\* a completed run over the scenario list: a match, a failed item, a video
\* and a non-match
C22_Witness ==
    \E k \in TaskIds :
        /\ Done(k)
        /\ task[k].L = ScenarioL
        /\ task[k].outcomes = <<"detected", "failed", "video", "detected">>
        /\ task[k].progress = <<Zero, <<25, 1>>, <<50, 1>>, <<75, 1>>, <<100, 1>> >>
        /\ filterProgress = <<100, 1>>

\* C23: isFiltering is true whenever some run is loading its models or
\* scanning, and a run leaves those states only as completed, after its
\* last item, or as failed by its model loading.
C23_FilteringTracksRun ==
    [][\A k \in TaskIds :
         LET t == task[k]
             u == task'[k]
         IN  /\ u.pc \in ScanPcs => isFiltering'
             /\ (t.pc \in ScanPcs /\ u.pc \notin ScanPcs) =>
                   \/ u.pc = "done" /\ Len(u.outcomes) = Len(u.L)
                   \/ u.pc = "failed" /\ t.pc = "fsModels"]_vars

\* C24: a detection starts only in the step that handles the load event of
\* its image: the reference photo's detection only for a photo that loads,
\* an item's detection only from the wait for that item's load.  A reference
\* photo whose load fails ends extraction with the error message; an item
\* that leaves the wait for its load without a detection is recorded as
\* failed and adds no match.
C24_DetectAfterLoad ==
    [][\A k \in TaskIds :
         LET t == task[k]
             u == task'[k]
         IN  /\ (u.pc = "dfDetect" /\ u # t) =>
                   /\ t.pc = "dfLoad"
                   /\ RefImageLoads(t.photo)
             /\ (t.pc = "dfLoad" /\ ~RefImageLoads(t.photo) /\ u # t) =>
                   /\ u.pc = "dfFailed"
                   /\ mError' = "Failed to detect face. Please try a different photo."
                   /\ ~mLoading'
             /\ (u.pc = "fsDetect" /\ u # t) =>
                   /\ t.pc = "fsImgLoad"
                   /\ u.i = t.i
             /\ (t.pc = "fsImgLoad" /\ u # t /\ u.pc # "fsDetect") =>
                   /\ Len(u.outcomes) > t.i
                   /\ u.outcomes[t.i + 1] = "failed"
                   /\ u.matches = t.matches]_vars

\* an extraction ended by its photo's load error, and a run examining its
\* second item after the first one failed
C24_Witness ==
    \E j, k \in TaskIds :
        /\ task[j].pc = "dfFailed"
        /\ task[k].pc = "fsDetect"
        /\ task[k].L = ScenarioL
        /\ task[k].i = 1
        /\ task[k].outcomes = <<"failed">>
        /\ task[k].matches = << >>

\* C25: the displayed list is always a subsequence of allMedia.
C25_MediaWithinAllMedia == IsSubseq(media, allMedia)

(***************************************************************************)
(* The full-screen viewer of ViewPage.  Its overlay covers the page, so     *)
(* while it is open the only other things that happen are promises and     *)
(* timers settling.                                                        *)
(***************************************************************************)
viewerVars == <<pageVars, fetch, modalVars, task, worldVars, cam, generated,
                sweep, upload>>

\* a click on the image at index i of the grid (videos have no such handler)
openFullScreen(i) ==
    /\ ~viewer.isFullScreen
    /\ ~isFilterModalOpen
    /\ i < Len(media)
    /\ ~IncludesVideo(media[i + 1])
    /\ viewer' = [isFullScreen |-> TRUE, currentIndex |-> i]
    /\ UNCHANGED viewerVars

closeFullScreen ==
    /\ viewer.isFullScreen
    /\ viewer' = [isFullScreen |-> FALSE, currentIndex |-> 0]
    /\ UNCHANGED viewerVars

\* setCurrentIndex(prev => prev < media.length - 1 ? prev + 1 : 0)
nextImage ==
    /\ viewer.isFullScreen
    /\ viewer' = [viewer EXCEPT !.currentIndex =
                     IF @ < Len(media) - 1 THEN @ + 1 ELSE 0]
    /\ UNCHANGED viewerVars

\* setCurrentIndex(prev => prev > 0 ? prev - 1 : media.length - 1)
prevImage ==
    /\ viewer.isFullScreen
    /\ viewer' = [viewer EXCEPT !.currentIndex =
                     IF @ > 0 THEN @ - 1 ELSE Len(media) - 1]
    /\ UNCHANGED viewerVars

\* promises and timers of the page and of the modal settling
SettleNext ==
    \/ \E ok \in BOOLEAN : FetchEventResolve(ok)
    \/ \E k \in TaskIds, ok \in BOOLEAN : ReaderOnload(k, ok)
    \/ \E k \in TaskIds, ok \in BOOLEAN : LoadModelsDone(k, ok)
    \/ \E k \in TaskIds : DetectFaceImageLoaded(k)
    \/ \E k \in TaskIds, ok \in BOOLEAN : DetectFaceDone(k, ok)
    \/ \E k \in TaskIds : ScanTimeout(k)
    \/ \E k \in TaskIds, ok \in BOOLEAN : ScanModelsDone(k, ok)
    \/ \E k \in TaskIds, ok \in BOOLEAN : ScanImageLoaded(k, ok)
    \/ \E k \in TaskIds, ok \in BOOLEAN : ScanDetectDone(k, ok)

\* the list of the viewer's event: an image that shows faces and one that
\* shows none
ViewerLists == {<<ImgA, ImgB>>}

ViewerNext ==
    \/ ~viewer.isFullScreen /\ Next
    \/ viewer.isFullScreen /\ SettleNext
    \/ \E i \in 0..(Len(media) - 1) : openFullScreen(i)
    \/ closeFullScreen
    \/ nextImage
    \/ prevImage

ViewerSpec == InitWith(ViewerLists) /\ [][ViewerNext]_vars

\* C26: while the full-screen viewer is open, currentIndex is an index of
\* media.
C26_IndexWithinMedia ==
    viewer.isFullScreen =>
        (0 <= viewer.currentIndex /\ viewer.currentIndex < Len(media))

\* C27: a filter run starts only from an open reference modal: when the
\* modal's timer invokes onScan, the modal is open.
C27_ScanOnlyFromOpenModal ==
    [][\A k \in TaskIds :
         (task[k].pc = "timeout" /\ task'[k].pc = "fsModels") =>
             isFilterModalOpen]_vars

(***************************************************************************)
(* What the page shows of the filter (page.tsx 295 and 326-328).           *)
(***************************************************************************)
\* the filter button
FilterButtonShown ==
    Len(allMedia) > 0 /\ ~loading /\ Len(media) = Len(allMedia)

\* 'Found k photos with your face' and 'Show All Photos'
BannerShown ==
    Len(allMedia) > 0 /\ ~loading /\ Len(media) # Len(allMedia)

\* C28: when a run completes on the non-empty list the page still shows,
\* the page is in the filtered state whatever the number of matches: the
\* banner is shown, the filter button is hidden and filteredCount is the
\* length of media; clearFilter then restores media = allMedia and
\* filteredCount = 0.
C28_FilteredStateShown ==
    [][/\ \A k \in TaskIds :
            (/\ task[k].pc \in ScanPcs
             /\ task'[k].pc = "done"
             /\ task[k].L # << >>
             /\ allMedia' = task[k].L
             /\ ~loading') =>
                /\ BannerShown'
                /\ ~FilterButtonShown'
                /\ filteredCount' = Len(media')
       /\ (BannerShown /\ task' = task /\ media' = allMedia) =>
             filteredCount' = 0]_vars

(***************************************************************************)
(* The upload page (src/unnamed/part_000, part_001): handleSubmit.         *)
(***************************************************************************)
uploadVars == <<pageVars, fetch, modalVars, task, now, cam, generated, sweep,
                viewer>>

\* the files and the duration of the uploads
UploadLists == {<<ImgA, ImgB>>}
UploadDurations == {6}

\* the upload page is loaded while none of its uploads is in flight: the
\* mount effect shows the active event's code
UploadMount ==
    /\ upload.pc = "idle"
    /\ upload' = [upload EXCEPT !.uploading = FALSE,
                                !.code = localStorage.activeEventCode,
                                !.files = << >>,
                                !.duration = 6]
    /\ upload' # upload
    /\ UNCHANGED <<uploadVars, events, localStorage>>

\* the form's submit (rendered while code is null, its button disabled
\* while uploading or without files), up to the await of the file uploads
handleSubmit(files, d) ==
    /\ upload.pc = "idle"
    /\ upload.code = << >>
    /\ ~upload.uploading
    /\ upload.count < MaxUploads
    /\ Len(files) > 0
    /\ upload' = [upload EXCEPT !.pc = "files", !.uploading = TRUE,
                                !.code = << >>, !.files = files,
                                !.duration = d]
    /\ UNCHANGED <<uploadVars, events, localStorage>>

\* Promise.all of the file uploads settled; ok = FALSE is one of them
\* rejecting: the catch block and finally
UploadFilesDone(ok) ==
    /\ upload.pc = "files"
    /\ upload' = IF ok THEN [upload EXCEPT !.pc = "creating"]
                 ELSE [upload EXCEPT !.pc = "idle", !.uploading = FALSE]
    /\ UNCHANGED <<uploadVars, events, localStorage>>

\* createEvent settled.  ok: the event is stored under the generated code,
\* the code is shown and remembered, the history entry is put first.
\* ok = FALSE is createEvent rejecting, with the event stored
\* (written = TRUE, the response was lost) or not
UploadCreateDone(k, ok, written) ==
    /\ upload.pc = "creating"
    /\ generateCode(k) \in StoreCodes
    /\ LET c == generateCode(k)
           stored == [events EXCEPT ![c] =
                        [exists |-> TRUE, urls |-> upload.files,
                         hasExpiry |-> TRUE,
                         expiresAt |-> addHoursToNow(upload.duration),
                         createdAt |-> now]]
       IN  IF ok
           THEN /\ written
                /\ events' = stored
                /\ localStorage' = StoreUpload(localStorage, c, upload.duration,
                                               Len(upload.files))
                /\ upload' = [upload EXCEPT !.pc = "idle", !.uploading = FALSE,
                                            !.code = c, !.count = @ + 1]
           ELSE /\ events' = IF written THEN stored ELSE events
                /\ upload' = [upload EXCEPT !.pc = "idle", !.uploading = FALSE]
                /\ UNCHANGED localStorage
    /\ UNCHANGED uploadVars

\* '+ Upload another event'
startNewUpload ==
    /\ upload.pc = "idle"
    /\ upload.code # << >>
    /\ upload' = [upload EXCEPT !.code = << >>, !.files = << >>]
    /\ localStorage' = [localStorage EXCEPT !.activeEventCode = << >>]
    /\ UNCHANGED <<uploadVars, events>>

UploadInit == PageInit /\ events = [c \in StoreCodes |-> NoEvent]

UploadNext ==
    \/ UploadMount
    \/ \E files \in UploadLists, d \in UploadDurations : handleSubmit(files, d)
    \/ \E ok \in BOOLEAN : UploadFilesDone(ok)
    \/ \E k \in RandomSamples, ok, written \in BOOLEAN :
          UploadCreateDone(k, ok, written)
    \/ startNewUpload

UploadSpec == UploadInit /\ [][UploadNext]_vars

\* C29: eventHistory never holds more than 10 entries.  An upload that
\* succeeds puts the entry of the event it created first, before the
\* previous entries in their order (the first 9 of them), and remembers the
\* event's code.  An upload that fails leaves the browser's storage as it
\* was and ends with uploading false.
C29_HistoryNewestFirst ==
    [][LET h == localStorage.eventHistory
           g == localStorage'.eventHistory
       IN  /\ Len(g) <= 10
           /\ (upload.pc = "creating" /\ upload'.code # << >>) =>
                 /\ Len(g) = (IF Len(h) < 9 THEN Len(h) ELSE 9) + 1
                 /\ g[1].code = upload'.code
                 /\ events'[g[1].code].exists
                 /\ events'[g[1].code].urls = upload.files
                 /\ \A j \in 2..Len(g) : g[j] = h[j - 1]
                 /\ localStorage'.lastEventCode = upload'.code
                 /\ localStorage'.activeEventCode = upload'.code
                 /\ ~upload'.uploading
           /\ (upload.pc \in {"files", "creating"} /\ upload'.pc = "idle"
               /\ upload'.code = << >>) =>
                 /\ localStorage' = localStorage
                 /\ ~upload'.uploading]_vars

\* the eleventh successful upload done: ten entries, the newest first, the
\* first upload's entry gone
C29_Witness ==
    /\ upload.count = 11
    /\ upload.pc = "idle"
    /\ upload.code = Code99999
    /\ Len(localStorage.eventHistory) = 10
    /\ localStorage.eventHistory[1].code = Code99999
    /\ \A j \in 2..10 : localStorage.eventHistory[j].code = Code12345

(***************************************************************************)
(* fetchEvent: its frame.                                                  *)
(***************************************************************************)
\* C30: the fetchEvent call of a page load, made with a code that is not 5
\* characters long, changes nothing: what loadCachedMedia showed stays
\* shown, no error, not loading, no lookup started, storage as it was.
\* Every lookup that settles leaves loading false, and one whose getDoc
\* rejected sets 'Something went wrong' and leaves storage, and so the
\* cache entries of the code, as they were.
C30_FetchEventFrame ==
    [][/\ PageMount =>
            /\ media' = (IF Len(LastCode) = 5 /\ CacheFresh(LastCode)
                         THEN localStorage.cache[LastCode].media ELSE << >>)
            /\ allMedia' = media'
            /\ error' = ""
            /\ ~loading'
            /\ fetch'.pc = "idle"
            /\ localStorage' = localStorage
       /\ (fetch.pc = "getDoc" /\ fetch'.pc = "idle") => ~loading'
       /\ (fetch.pc = "getDoc" /\ fetch'.pc = "idle"
           /\ error' = "Something went wrong") =>
            /\ localStorage' = localStorage
            /\ media' = media
            /\ allMedia' = allMedia]_vars

\* a lookup of the event failed in the store after an earlier one had
\* cached it: the error is shown, the entry is still there
C30_Witness ==
    /\ error = "Something went wrong"
    /\ ~loading
    /\ fetch.pc = "idle"
    /\ code = Code12345
    /\ localStorage.cache[Code12345].present
    /\ localStorage.cache[Code12345].media # << >>
    /\ media = << >>

====
